---- MODULE Spec2Model ----
(***************************************************************************)
(* The imports service (services/imports/server.js) over its SQLite        *)
(* tables imports and import_items: order creation, list and detail reads, *)
(* status updates and the dashboard aggregates, with every await of a      *)
(* handler as a point where another request's handler may run.             *)
(*                                                                         *)
(* A step of a handler is the synchronous code up to an awaited statement  *)
(* together with that statement's execution by SQLite: the code between    *)
(* two awaits touches no shared state, so this loses no interleaving.      *)
(* db.run / db.query (config/database.js) are taken as sqlite3's run / all *)
(* on one shared connection: one autocommitted statement per call, which   *)
(* rejects when the statement fails.                                       *)
(***************************************************************************)
EXTENDS Integers, Sequences, FiniteSets, TLC

VARIABLES
    imports,       \* table imports: sequence of rows, row i has id i (AUTOINCREMENT, no DELETE)
    import_items,  \* table import_items: sequence of rows
    suppliers,     \* table suppliers: set of rows
    handlers,      \* the handlers in flight: slot -> the locals of a handler suspended at an await
    lastResp,      \* the HTTP response sent by the step just taken (NoResp when it sent none)
    createdWith    \* history: import id -> the item list of the request that inserted the row

vars == <<imports, import_items, suppliers, handlers, lastResp, createdWith>>

(***************************************************************************)
(* Bounds of the model.                                                    *)
(***************************************************************************)
MaxOrders == 2     \* rows of imports
MaxSuppliers == 6  \* rows of suppliers

\* Two handlers are suspended at an await at the same time, at most.
Slots == {1, 2}
NULL == "<null>"   \* SQL NULL, JS null / undefined

(***************************************************************************)
(* JS numbers.  A Number is an IEEE-754 double; here a non-negative double *)
(* x is the integer x * 2^60, written in NumLimbs limbs of 15 bits, least  *)
(* significant first.  Every double in [2^-7, 2^15) is such an integer.    *)
(* The result of an operation is the exact result rounded to 53            *)
(* significant bits, ties to even.                                         *)
(***************************************************************************)
LimbBase == 32768
NumLimbs == 5
BigOne == <<1, 0, 0, 0, 0>>
NumZero == <<0, 0, 0, 0, 0>>

RECURSIVE BigAddFrom(_, _, _, _)
BigAddFrom(a, b, i, carry) ==
    IF i > NumLimbs THEN <<>>
    ELSE LET s == a[i] + b[i] + carry
         IN  <<s % LimbBase>> \o BigAddFrom(a, b, i + 1, s \div LimbBase)

BigAdd(a, b) == BigAddFrom(a, b, 1, 0)

RECURSIVE BigMulFrom(_, _, _, _)
BigMulFrom(a, q, i, carry) ==
    IF i > NumLimbs THEN <<>>
    ELSE LET s == a[i] * q + carry
         IN  <<s % LimbBase>> \o BigMulFrom(a, q, i + 1, s \div LimbBase)

BigMulSmall(a, q) == BigMulFrom(a, q, 1, 0)

\* Short division by d < LimbBase, from the most significant limb.
RECURSIVE BigDivFrom(_, _, _, _)
BigDivFrom(a, d, i, rem) ==
    IF i < 1 THEN [q |-> <<>>, r |-> rem]
    ELSE LET cur  == rem * LimbBase + a[i]
             rest == BigDivFrom(a, d, i - 1, cur % d)
         IN  [q |-> rest.q \o <<cur \div d>>, r |-> rest.r]

BigDivSmall(a, d) == BigDivFrom(a, d, NumLimbs, 0)

\* a >= 2^53 (53 = 3 * 15 + 8): a has more bits than a double's significand.
BigOver53(a) == a[5] > 0 \/ a[4] >= 256

\* a < b, from the most significant limb.
RECURSIVE BigLessFrom(_, _, _)
BigLessFrom(a, b, i) ==
    IF i < 1 THEN FALSE
    ELSE IF a[i] # b[i] THEN a[i] < b[i]
    ELSE BigLessFrom(a, b, i - 1)

NumLess(x, y) == BigLessFrom(x, y, NumLimbs)

RECURSIVE BigShl(_, _)
BigShl(a, n) == IF n = 0 THEN a ELSE BigShl(BigMulSmall(a, 2), n - 1)

\* a, followed by a guard bit and a sticky bit, rounded to 53 significant bits.
RECURSIVE RoundNearestEven(_, _, _, _)
RoundNearestEven(a, guard, sticky, shift) ==
    IF BigOver53(a)
    THEN LET h == BigDivSmall(a, 2)
         IN  RoundNearestEven(h.q, h.r = 1, sticky \/ guard, shift + 1)
    ELSE LET up == guard /\ (sticky \/ a[1] % 2 = 1)
         IN  BigShl(IF up THEN BigAdd(a, BigOne) ELSE a, shift)

\* The Number of an integer n, 0 <= n < 2^15.
NumFromInt(n) == <<0, 0, 0, 0, n>>

\* The Number JSON.parse gives for the decimal literal c/100 (c hundredths).
NumFromCents(c) ==
    LET d == BigDivSmall(NumFromInt(c), 100)
    IN  RoundNearestEven(d.q, FALSE, d.r # 0, 0)

\* q * x for an integer q and a Number x.
NumMul(q, x) == RoundNearestEven(BigMulSmall(x, q), FALSE, FALSE, 0)

\* x + y.
NumAdd(x, y) == RoundNearestEven(BigAdd(x, y), FALSE, FALSE, 0)

(***************************************************************************)
(* The rows the tables hold at the start.                                  *)
(***************************************************************************)
\* users: the seeded admin and importer1, and one more registered user.
Users ==
    { [id |-> 1, username |-> "admin", role |-> "admin"],
      [id |-> 2, username |-> "importer1", role |-> "user"],
      [id |-> 3, username |-> "importer2", role |-> "user"] }

\* suppliers: the seeded rows.
Suppliers ==
    { [id |-> 1, name |-> "Tech Supplies China", country |-> "China"],
      [id |-> 2, name |-> "European Electronics", country |-> "Alemania"],
      [id |-> 3, name |-> "Global Components", country |-> "Taiwan"] }

Products ==
    { [id |-> 1, name |-> "Smartphone XYZ", description |-> "Smartphone de alta gama"],
      [id |-> 2, name |-> "Laptop ABC", description |-> "Laptop profesional"],
      [id |-> 3, name |-> "Tablet DEF", description |-> "Tablet para uso general"],
      [id |-> 4, name |-> "Auriculares GHI", description |-> "Auriculares inalambricos"] }

\* LEFT JOIN t ON key = t.id, one column: NULL when no row matches.
JoinColumn(table, key, column) ==
    IF \E t \in table : t.id = key
    THEN (CHOOSE t \in table : t.id = key)[column]
    ELSE NULL

(***************************************************************************)
(* middleware/auth.js                                                      *)
(***************************************************************************)
\* req.user before authenticateToken has set it.
NoUser == [id |-> 0, username |-> NULL, role |-> NULL]

\* authenticateToken: the users row of the user id the token decodes to;
\* NoUser when there is none (403 'Token invalido', next() is not called).
Authenticate(token) ==
    IF \E u \in Users : u.id = token
    THEN CHOOSE u \in Users : u.id = token
    ELSE NoUser

\* The route without authorize(['admin']).
AuthorizeAnyone(roles, user) == TRUE

\* authorize(roles): TRUE when next() is called, FALSE when it answers 403.
Authorize(roles, user) == ~(roles # {} /\ user.role \notin roles)

(***************************************************************************)
(* Responses.  req holds the request's inputs and, for a handler with      *)
(* several awaits, the locals it had when it answered.                     *)
(***************************************************************************)
NoResp == [op |-> "none", code |-> 0, user |-> NoUser, req |-> NULL, body |-> NULL]

Respond(op, code, user, req, body) ==
    [op |-> op, code |-> code, user |-> user, req |-> req, body |-> body]

TokenInvalid(op) == Respond(op, 403, NoUser, NULL, "Token invalido")

InternalError(op, user, req) == Respond(op, 500, user, req, "Error interno del servidor")

Idle == [pc |-> "idle"]

(***************************************************************************)
(* POST /api/imports                                                       *)
(***************************************************************************)
\* importSchema.validate: the path of the first offending value, <<>> when
\* the body is valid.
RECURSIVE ItemsError(_, _)
ItemsError(items, i) ==
    IF i > Len(items) THEN <<>>
    ELSE IF items[i].product_id <= 0 THEN <<"items", i, "product_id">>
    ELSE IF items[i].quantity <= 0 THEN <<"items", i, "quantity">>
    ELSE IF items[i].unit_price <= 0 THEN <<"items", i, "unit_price">>
    ELSE ItemsError(items, i + 1)

\* The schema without .min(1) on items.
ValidationErrorNoMin(body) ==
    IF body.supplier_id <= 0 THEN <<"supplier_id">>
    ELSE ItemsError(body.items, 1)

ValidationError(body) ==
    IF body.supplier_id <= 0 THEN <<"supplier_id">>
    ELSE IF ItemsError(body.items, 1) # <<>> THEN ItemsError(body.items, 1)
    ELSE IF Len(body.items) < 1 THEN <<"items">>
    ELSE <<>>

\* let totalAmount = 0; for (const item of items) totalAmount += item.quantity * item.unit_price
RECURSIVE TotalAmountFrom(_, _, _)
TotalAmountFrom(items, i, acc) ==
    IF i > Len(items) THEN acc
    ELSE TotalAmountFrom(items, i + 1,
             NumAdd(acc, NumMul(items[i].quantity, NumFromCents(items[i].unit_price))))

TotalAmount(items) == TotalAmountFrom(items, 1, NumZero)

\* `IMP-${timestamp}-${random}`.toUpperCase()
GenerateImportCode(timestamp, random) == <<"IMP", timestamp, random>>

\* The table without its UNIQUE constraint: no INSERT is refused for its code.
UniqueViolationNone(rows, code) == FALSE

\* import_code TEXT UNIQUE NOT NULL: the INSERT fails when the code is taken.
UniqueViolation(rows, code) ==
    \E i \in 1..Len(rows) : rows[i].import_code = code

\* The row INSERT INTO imports makes: status takes its DEFAULT, the
\* parameters that are undefined (estimated_arrival, notes) are NULL.
ImportRow(id, code, user, value, total) ==
    [ id |-> id, import_code |-> code, user_id |-> user.id,
      supplier_id |-> value.supplier_id, status |-> "pending",
      total_amount |-> total, import_date |-> value.import_date,
      estimated_arrival |-> NULL, tracking_number |-> NULL, notes |-> NULL ]

\* The row INSERT INTO import_items makes.
ItemRow(id, importId, item) ==
    [ id |-> id, import_id |-> importId, product_id |-> item.product_id,
      quantity |-> item.quantity, unit_price |-> NumFromCents(item.unit_price),
      total_price |-> NumMul(item.quantity, NumFromCents(item.unit_price)) ]

\* SELECT i.*, s.name as supplier_name FROM imports i LEFT JOIN suppliers s ... WHERE i.id = ?
SelectNewImport(rows, id) ==
    LET Match(row) == row.id = id
        Joined(row) == row @@ [supplier_name |-> JoinColumn(suppliers, row.supplier_id, "name")]
        found == SelectSeq(rows, Match)
    IN  [i \in 1..Len(found) |-> Joined(found[i])]

\* Lines 125-147: authenticate, validate, compute the total, generate the
\* code and insert the header (stored: SQLite carried the INSERT out).
PostImports(r, token, body, timestamp, random, stored) ==
    LET user   == Authenticate(token)
        total  == TotalAmount(body.items)
        code   == GenerateImportCode(timestamp, random)
        id     == Len(imports) + 1
        taken  == UniqueViolation(imports, code)
        locals == [ pc |-> IF Len(body.items) = 0 THEN "select_new" ELSE "insert_items",
                    user |-> user, items |-> body.items, importCode |-> code,
                    importId |-> id, next |-> 1, collided |-> stored /\ taken ]
    IN  /\ handlers[r].pc = "idle"
        /\ IF user = NoUser
           THEN /\ lastResp' = TokenInvalid("create")
                /\ UNCHANGED <<imports, import_items, handlers, createdWith, suppliers>>
           ELSE IF ValidationError(body) # <<>>
           THEN /\ lastResp' = Respond("create", 400, user, body, ValidationError(body))
                /\ UNCHANGED <<imports, import_items, handlers, createdWith, suppliers>>
           ELSE /\ Len(imports) < MaxOrders
                /\ IF stored /\ ~taken
                   THEN /\ imports' = Append(imports, ImportRow(id, code, user, body, total))
                        /\ createdWith' = Append(createdWith, body.items)
                        /\ handlers' = [handlers EXCEPT ![r] = locals]
                        /\ lastResp' = NoResp
                        /\ UNCHANGED <<import_items, suppliers>>
                   ELSE /\ lastResp' = InternalError("create", user,
                                           [locals EXCEPT !.pc = "insert_import", !.importId = 0])
                        /\ UNCHANGED <<imports, import_items, handlers, createdWith, suppliers>>

\* Lines 150-156: one turn of the loop that inserts the items.
PostInsertItem(r, stored) ==
    LET h    == handlers[r]
        item == h.items[h.next]
        id   == Len(import_items) + 1
    IN  /\ h.pc = "insert_items"
        /\ IF stored
           THEN /\ import_items' = Append(import_items, ItemRow(id, h.importId, item))
                /\ handlers' = [handlers EXCEPT ![r] =
                       IF h.next = Len(h.items)
                       THEN [h EXCEPT !.pc = "select_new"]
                       ELSE [h EXCEPT !.next = h.next + 1]]
                /\ lastResp' = NoResp
                /\ UNCHANGED <<imports, createdWith, suppliers>>
           ELSE /\ lastResp' = InternalError("create", h.user, h)
                /\ handlers' = [handlers EXCEPT ![r] = Idle]
                /\ UNCHANGED <<imports, import_items, createdWith, suppliers>>

\* Lines 158-168: read the new header back and answer 201.
PostSelectNew(r, read) ==
    LET h         == handlers[r]
        newImport == SelectNewImport(imports, h.importId)
    IN  /\ h.pc = "select_new"
        /\ lastResp' = IF read
                       THEN Respond("create", 201, h.user, h, newImport[1])
                       ELSE InternalError("create", h.user, h)
        /\ handlers' = [handlers EXCEPT ![r] = Idle]
        /\ UNCHANGED <<imports, import_items, createdWith, suppliers>>

(***************************************************************************)
(* GET /api/imports                                                        *)
(***************************************************************************)
\* The value SQLite compares with an INTEGER column when the parameter is
\* the text of a query string or of a path segment.
ToInteger(text) ==
    CASE text = "1" -> 1
      [] text = "2" -> 2
      [] text = "3" -> 3
      [] OTHER -> 0

RECURSIVE Reverse(_)
Reverse(seq) == IF seq = <<>> THEN <<>> ELSE Reverse(Tail(seq)) \o <<Head(seq)>>

\* The columns the two LEFT JOINs add to a row of imports.
WithSupplierAndCreator(row) ==
    row @@ [ supplier_name |-> JoinColumn(suppliers, row.supplier_id, "name"),
             supplier_country |-> JoinColumn(suppliers, row.supplier_id, "country"),
             created_by |-> JoinColumn(Users, row.user_id, "username") ]

\* The query without AND i.user_id = ? for the callers who are not admin.
ListQueryAnyOwner(rows, user, status, supplier_id) ==
    LET Match(row) ==
            /\ status # NULL => row.status = status
            /\ supplier_id # NULL => row.supplier_id = ToInteger(supplier_id)
        found == Reverse(SelectSeq(rows, Match))
    IN  [i \in 1..Len(found) |-> WithSupplierAndCreator(found[i])]

\* Lines 46-74: WHERE 1=1 [AND i.user_id = ?] [AND i.status = ?] [AND i.supplier_id = ?]
\* ORDER BY i.created_at DESC (rows are created in the order of their ids).
ListQuery(rows, user, status, supplier_id) ==
    LET Match(row) ==
            /\ user.role # "admin" => row.user_id = user.id
            /\ status # NULL => row.status = status
            /\ supplier_id # NULL => row.supplier_id = ToInteger(supplier_id)
        found == Reverse(SelectSeq(rows, Match))
    IN  [i \in 1..Len(found) |-> WithSupplierAndCreator(found[i])]

GetImports(token, status, supplier_id, read) ==
    LET user == Authenticate(token)
        req  == [status |-> status, supplier_id |-> supplier_id]
    IN  /\ lastResp' =
               IF user = NoUser THEN TokenInvalid("list")
               ELSE IF read
               THEN Respond("list", 200, user, req, ListQuery(imports, user, status, supplier_id))
               ELSE InternalError("list", user, req)
        /\ UNCHANGED <<imports, import_items, handlers, createdWith, suppliers>>

(***************************************************************************)
(* GET /api/imports/:id                                                    *)
(***************************************************************************)
\* The header query without AND i.user_id = ?.
DetailQueryAnyOwner(rows, user, id) ==
    LET Match(row) == row.id = ToInteger(id)
        found == SelectSeq(rows, Match)
    IN  [i \in 1..Len(found) |-> WithSupplierAndCreator(found[i])]

\* Lines 86-101: WHERE i.id = ? [AND i.user_id = ?]
DetailQuery(rows, user, id) ==
    LET Match(row) ==
            /\ row.id = ToInteger(id)
            /\ user.role # "admin" => row.user_id = user.id
        found == SelectSeq(rows, Match)
    IN  [i \in 1..Len(found) |-> WithSupplierAndCreator(found[i])]

\* Lines 108-113: SELECT ii.*, p.name, p.description FROM import_items ii
\* LEFT JOIN products p ... WHERE ii.import_id = ?
ItemsQuery(rows, id) ==
    LET Match(row) == row.import_id = ToInteger(id)
        Joined(row) ==
            row @@ [ product_name |-> JoinColumn(Products, row.product_id, "name"),
                     product_description |-> JoinColumn(Products, row.product_id, "description") ]
        found == SelectSeq(rows, Match)
    IN  [i \in 1..Len(found) |-> Joined(found[i])]

\* Lines 82-105: the header query.
GetImport(r, token, id, read) ==
    LET user   == Authenticate(token)
        found  == DetailQuery(imports, user, id)
        req    == [id |-> id]
    IN  /\ handlers[r].pc = "idle"
        /\ UNCHANGED <<imports, import_items, createdWith, suppliers>>
        /\ IF user = NoUser
           THEN lastResp' = TokenInvalid("detail") /\ UNCHANGED handlers
           ELSE IF ~read
           THEN lastResp' = InternalError("detail", user, req) /\ UNCHANGED handlers
           ELSE IF Len(found) = 0
           THEN /\ lastResp' = Respond("detail", 404, user, req, "Importacion no encontrada")
                /\ UNCHANGED handlers
           ELSE /\ lastResp' = NoResp
                /\ handlers' = [handlers EXCEPT ![r] =
                       [pc |-> "detail_items", user |-> user, id |-> id, import |-> found[1]]]

\* Lines 107-118: the items query and the answer { ...imports[0], items }.
GetImportItems(r, read) ==
    LET h     == handlers[r]
        items == ItemsQuery(import_items, h.id)
    IN  /\ h.pc = "detail_items"
        /\ lastResp' = IF read
                       THEN Respond("detail", 200, h.user, [id |-> h.id],
                                    h.import @@ [items |-> items])
                       ELSE InternalError("detail", h.user, [id |-> h.id])
        /\ handlers' = [handlers EXCEPT ![r] = Idle]
        /\ UNCHANGED <<imports, import_items, createdWith, suppliers>>

(***************************************************************************)
(* PUT /api/imports/:id/status                                             *)
(***************************************************************************)
ValidStatuses ==
    {"pending", "processing", "shipped", "in_transit", "customs", "delivered", "cancelled"}

\* The handler without its check of the label.
StatusIsValidAlways(status) == TRUE

\* validStatuses.includes(status)
StatusIsValid(status) == status \in ValidStatuses

\* The UPDATE with tracking_number = COALESCE(?, tracking_number).
UpdateStatusKeepTracking(rows, id, status, tracking_number) ==
    [i \in 1..Len(rows) |->
        IF rows[i].id = ToInteger(id)
        THEN [rows[i] EXCEPT !.status = status,
                             !.tracking_number =
                                 IF tracking_number \in {NULL, ""} THEN @ ELSE tracking_number]
        ELSE rows[i]]

\* The UPDATE without WHERE id = ?.
UpdateStatusEveryRow(rows, id, status, tracking_number) ==
    [i \in 1..Len(rows) |->
        [rows[i] EXCEPT !.status = status,
                        !.tracking_number =
                            IF tracking_number \in {NULL, ""} THEN NULL ELSE tracking_number]]

\* The UPDATE with a guard that leaves delivered and cancelled orders alone.
UpdateStatusUnlessTerminal(rows, id, status, tracking_number) ==
    [i \in 1..Len(rows) |->
        IF rows[i].id = ToInteger(id) /\ rows[i].status \notin {"delivered", "cancelled"}
        THEN [rows[i] EXCEPT !.status = status,
                             !.tracking_number =
                                 IF tracking_number \in {NULL, ""} THEN NULL ELSE tracking_number]
        ELSE rows[i]]

\* UPDATE imports SET status = ?, tracking_number = ?, updated_at = CURRENT_TIMESTAMP
\* WHERE id = ?   with [status, tracking_number || null, id]
UpdateStatus(rows, id, status, tracking_number) ==
    [i \in 1..Len(rows) |->
        IF rows[i].id = ToInteger(id)
        THEN [rows[i] EXCEPT !.status = status,
                             !.tracking_number =
                                 IF tracking_number \in {NULL, ""} THEN NULL ELSE tracking_number]
        ELSE rows[i]]

\* SELECT * FROM imports WHERE id = ?
SelectImport(rows, id) ==
    LET Match(row) == row.id = ToInteger(id)
    IN  SelectSeq(rows, Match)

\* Lines 175-188: authenticate, authorize(['admin']), check the label, UPDATE.
PutStatus(r, token, id, status, tracking_number, stored) ==
    LET user == Authenticate(token)
        req  == [id |-> id, status |-> status, tracking_number |-> tracking_number]
    IN  /\ handlers[r].pc = "idle"
        /\ UNCHANGED <<import_items, createdWith, suppliers>>
        /\ IF user = NoUser
           THEN lastResp' = TokenInvalid("status") /\ UNCHANGED <<imports, handlers>>
           ELSE IF ~Authorize({"admin"}, user)
           THEN /\ lastResp' = Respond("status", 403, user, req, "Permisos insuficientes")
                /\ UNCHANGED <<imports, handlers>>
           ELSE IF ~StatusIsValid(status)
           THEN /\ lastResp' = Respond("status", 400, user, req, "Estado invalido")
                /\ UNCHANGED <<imports, handlers>>
           ELSE IF ~stored
           THEN lastResp' = InternalError("status", user, req) /\ UNCHANGED <<imports, handlers>>
           ELSE /\ imports' = UpdateStatus(imports, id, status, tracking_number)
                /\ handlers' = [handlers EXCEPT ![r] =
                       [pc |-> "status_select", user |-> user, req |-> req]]
                /\ lastResp' = NoResp

\* Lines 190-199: read the row back; 404 when there is none.
PutStatusSelect(r, read) ==
    LET h             == handlers[r]
        updatedImport == SelectImport(imports, h.req.id)
    IN  /\ h.pc = "status_select"
        /\ lastResp' =
               IF ~read THEN InternalError("status", h.user, h.req)
               ELSE IF Len(updatedImport) = 0
               THEN Respond("status", 404, h.user, h.req, "Importacion no encontrada")
               ELSE Respond("status", 200, h.user, h.req, updatedImport[1])
        /\ handlers' = [handlers EXCEPT ![r] = Idle]
        /\ UNCHANGED <<imports, import_items, createdWith, suppliers>>

(***************************************************************************)
(* GET /api/imports/stats/dashboard                                        *)
(***************************************************************************)
\* The index of the group of a status, 0 when there is none yet.
GroupIndex(groups, status) ==
    IF \E k \in 1..Len(groups) : groups[k].status = status
    THEN CHOOSE k \in 1..Len(groups) : groups[k].status = status
    ELSE 0

\* SELECT status, COUNT(*) as count, SUM(total_amount) as total_value
\* FROM imports GROUP BY status: one pass over the rows, a row joins the
\* group of its status or opens it.
RECURSIVE StatusStatsFrom(_, _, _)
StatusStatsFrom(rows, i, groups) ==
    IF i > Len(rows) THEN groups
    ELSE LET row == rows[i]
             k   == GroupIndex(groups, row.status)
         IN  StatusStatsFrom(rows, i + 1,
                 IF k = 0
                 THEN Append(groups, [status |-> row.status, count |-> 1,
                                      total_value |-> row.total_amount])
                 ELSE [groups EXCEPT ![k] =
                          [status |-> row.status, count |-> groups[k].count + 1,
                           total_value |-> NumAdd(groups[k].total_value, row.total_amount)]])

\* The aggregate with every row its own group.
StatusStatsUngrouped(rows) ==
    [i \in 1..Len(rows) |->
        [status |-> rows[i].status, count |-> 1, total_value |-> rows[i].total_amount]]

StatusStats(rows) == StatusStatsFrom(rows, 1, <<>>)

\* SUM over no row: SQL NULL in a numeric column.
NullNumber == <<>>

RECURSIVE SumTotalFrom(_, _, _)
SumTotalFrom(rows, i, acc) ==
    IF i > Len(rows) THEN acc
    ELSE SumTotalFrom(rows, i + 1,
             IF acc = NullNumber THEN rows[i].total_amount
             ELSE NumAdd(acc, rows[i].total_amount))

SumTotal(rows) == SumTotalFrom(rows, 1, NullNumber)

\* The month of created_at: a run of the model lies within one month.
CurrentMonth == "2025-01"

\* SELECT strftime('%Y-%m', created_at) as month, COUNT(*), SUM(total_amount)
\* FROM imports WHERE created_at >= date('now', '-12 months') GROUP BY month
MonthlyStats(rows) ==
    IF Len(rows) = 0 THEN <<>>
    ELSE << [month |-> CurrentMonth, imports_count |-> Len(rows),
             total_value |-> SumTotal(rows)] >>

\* One row of FROM suppliers s LEFT JOIN imports i ON s.id = i.supplier_id
\* GROUP BY s.id, s.name.
SupplierGroup(rows, supplier) ==
    LET Match(row) == row.supplier_id = supplier.id
        joined == SelectSeq(rows, Match)
    IN  [ name |-> supplier.name, imports_count |-> Len(joined),
          total_value |-> SumTotal(joined) ]

\* x sorts before y under ORDER BY ... DESC: NULL is the least value.
SortsBefore(x, y) ==
    IF x = NullNumber THEN FALSE
    ELSE IF y = NullNumber THEN TRUE
    ELSE NumLess(y, x)

\* The sequences of the members of ids, each once.
RECURSIVE Orders(_)
Orders(ids) ==
    IF ids = {} THEN { <<>> }
    ELSE UNION { { <<id>> \o o : o \in Orders(ids \ {id}) } : id \in ids }

\* The orders in which the rows of suppliers may come out of the sort.
SupplierOrders == Orders({s.id : s \in suppliers})

TopLimit == 5

\* The query without ORDER BY total_value DESC.
TopSuppliersUnsorted(rows, order) ==
    LET group == [i \in 1..Len(order) |->
                     SupplierGroup(rows, CHOOSE s \in suppliers : s.id = order[i])]
        n == IF Len(order) < TopLimit THEN Len(order) ELSE TopLimit
    IN  SubSeq(group, 1, n)

\* ... ORDER BY total_value DESC LIMIT 5, the rows taken in the order `order`:
\* the result when that order is one the sort may give, else <<>>.
TopSuppliers(rows, order) ==
    LET group == [i \in 1..Len(order) |->
                     SupplierGroup(rows, CHOOSE s \in suppliers : s.id = order[i])]
        sorted == \A i \in 1..(Len(order) - 1) :
                     ~SortsBefore(group[i + 1].total_value, group[i].total_value)
        n == IF Len(order) < TopLimit THEN Len(order) ELSE TopLimit
    IN  IF sorted THEN SubSeq(group, 1, n) ELSE <<>>

\* Lines 206-215: the first of the three queries.
GetDashboard(r, token, read) ==
    LET user == Authenticate(token)
    IN  /\ handlers[r].pc = "idle"
        /\ UNCHANGED <<imports, import_items, createdWith, suppliers>>
        /\ IF user = NoUser
           THEN lastResp' = TokenInvalid("dashboard") /\ UNCHANGED handlers
           ELSE IF ~read
           THEN lastResp' = InternalError("dashboard", user, NULL) /\ UNCHANGED handlers
           ELSE /\ lastResp' = NoResp
                /\ handlers' = [handlers EXCEPT ![r] =
                       [pc |-> "dashboard_monthly", user |-> user,
                        statusStats |-> StatusStats(imports)]]

\* Lines 217-227.
GetDashboardMonthly(r, read) ==
    LET h == handlers[r]
    IN  /\ h.pc = "dashboard_monthly"
        /\ UNCHANGED <<imports, import_items, createdWith, suppliers>>
        /\ IF read
           THEN /\ lastResp' = NoResp
                /\ handlers' = [handlers EXCEPT ![r] =
                       [pc |-> "dashboard_top", user |-> h.user,
                        statusStats |-> h.statusStats,
                        monthlyStats |-> MonthlyStats(imports)]]
           ELSE /\ lastResp' = InternalError("dashboard", h.user, NULL)
                /\ handlers' = [handlers EXCEPT ![r] = Idle]

\* Lines 229-246.
GetDashboardTop(r, order, read) ==
    LET h == handlers[r]
        topSuppliers == TopSuppliers(imports, order)
    IN  /\ h.pc = "dashboard_top"
        /\ read => topSuppliers # <<>>
        /\ lastResp' =
               IF read
               THEN Respond("dashboard", 200, h.user, NULL,
                            [ statusBreakdown |-> h.statusStats,
                              monthlyTrends |-> h.monthlyStats,
                              topSuppliers |-> topSuppliers ])
               ELSE InternalError("dashboard", h.user, NULL)
        /\ handlers' = [handlers EXCEPT ![r] = Idle]
        /\ UNCHANGED <<imports, import_items, createdWith, suppliers>>

(***************************************************************************)
(* POST /api/suppliers                                                     *)
(***************************************************************************)
\* supplierSchema: name and country are required.
SupplierValidationError(body) ==
    IF body.name = NULL THEN <<"name">>
    ELSE IF body.country = NULL THEN <<"country">>
    ELSE <<>>

\* id INTEGER PRIMARY KEY AUTOINCREMENT: one more than the largest id so far.
NextSupplierId ==
    (CHOOSE s \in suppliers : \A t \in suppliers : t.id <= s.id).id + 1

\* Lines 435-447: authenticate, validate, INSERT INTO suppliers.
PostSuppliers(r, token, body, stored) ==
    LET user == Authenticate(token)
    IN  /\ handlers[r].pc = "idle"
        /\ UNCHANGED <<imports, import_items, createdWith>>
        /\ IF user = NoUser
           THEN lastResp' = TokenInvalid("supplier") /\ UNCHANGED <<suppliers, handlers>>
           ELSE IF SupplierValidationError(body) # <<>>
           THEN /\ lastResp' = Respond("supplier", 400, user, body, SupplierValidationError(body))
                /\ UNCHANGED <<suppliers, handlers>>
           ELSE /\ Cardinality(suppliers) < MaxSuppliers
                /\ IF stored
                   THEN /\ suppliers' = suppliers \cup
                               {[id |-> NextSupplierId, name |-> body.name,
                                 country |-> body.country]}
                        /\ handlers' = [handlers EXCEPT ![r] =
                               [pc |-> "supplier_select", user |-> user, id |-> NextSupplierId]]
                        /\ lastResp' = NoResp
                   ELSE /\ lastResp' = InternalError("supplier", user, body)
                        /\ UNCHANGED <<suppliers, handlers>>

\* Lines 449-458: read the new row back and answer 201.
PostSuppliersSelect(r, read) ==
    LET h == handlers[r]
    IN  /\ h.pc = "supplier_select"
        /\ lastResp' =
               IF read
               THEN Respond("supplier", 201, h.user, NULL,
                            CHOOSE s \in suppliers : s.id = h.id)
               ELSE InternalError("supplier", h.user, NULL)
        /\ handlers' = [handlers EXCEPT ![r] = Idle]
        /\ UNCHANGED <<imports, import_items, suppliers, createdWith>>

(***************************************************************************)
(* The inputs of the requests.                                             *)
(***************************************************************************)
\* The user id a bearer token decodes to; 9 is the id of no user.
Tokens == {1, 2, 3, 9}

\* Item lists of a request body; unit_price in hundredths (0.10, 0.20).
NoItems == <<>>
OneItem == << [product_id |-> 1, quantity |-> 1, unit_price |-> 10] >>
TwoItems ==
    << [product_id |-> 1, quantity |-> 1, unit_price |-> 10],
       [product_id |-> 2, quantity |-> 1, unit_price |-> 20] >>
ZeroQuantity == << [product_id |-> 1, quantity |-> 0, unit_price |-> 10] >>

Body(supplier_id, items) ==
    [supplier_id |-> supplier_id, import_date |-> "2025-01-15", items |-> items]

\* What Date.now() and Math.random() give generateImportCode: a millisecond
\* and five base-36 digits.
Timestamps == 1..MaxOrders
Randoms == {"4FZ1K"}

\* Path parameters :id; the last is the id of no row.
Ids == {"1", "2", "3"}

Init ==
    /\ imports = <<>>
    /\ import_items = <<>>
    /\ suppliers = Suppliers
    /\ handlers = [r \in Slots |-> Idle]
    /\ lastResp = NoResp
    /\ createdWith = <<>>

\* A request is taken up by the first slot that is free.
FirstIdle(r) ==
    /\ handlers[r].pc = "idle"
    /\ \A q \in Slots : q < r => handlers[q].pc # "idle"

(***************************************************************************)
(* SpecCreate: creation by one user, with any code and with the failures   *)
(* of its statements, beside that user's list and detail reads.            *)
(***************************************************************************)
CreateBodies == {Body(1, TwoItems), Body(2, OneItem), Body(1, NoItems), Body(1, ZeroQuantity)}

NextCreate ==
    \E r \in Slots :
        \/ \E body \in CreateBodies, timestamp \in Timestamps, random \in Randoms,
              stored \in BOOLEAN :
               FirstIdle(r) /\ PostImports(r, 2, body, timestamp, random, stored)
        \/ \E stored \in BOOLEAN : PostInsertItem(r, stored)
        \/ \E read \in BOOLEAN : PostSelectNew(r, read)
        \/ r = 1 /\ GetImports(2, NULL, NULL, TRUE)
        \/ \E id \in Ids : FirstIdle(r) /\ GetImport(r, 2, id, TRUE)
        \/ GetImportItems(r, TRUE)

SpecCreate == Init /\ [][NextCreate]_vars

\* Creation as the specifications below have it: every statement succeeds,
\* and each order is created in a later millisecond than the one before.
CreateOneItem(r, token) ==
    \/ FirstIdle(r) /\ PostImports(r, token, Body(1, OneItem), Len(imports) + 1, "4FZ1K", TRUE)
    \/ PostInsertItem(r, TRUE)
    \/ PostSelectNew(r, TRUE)

(***************************************************************************)
(* SpecReads: orders of two users, read by them and by the admin.          *)
(***************************************************************************)
NextReads ==
    \E r \in Slots :
        \/ \E token \in {2, 3} : CreateOneItem(r, token)
        \/ \E token \in Tokens, status \in {NULL, "pending"}, supplier_id \in {NULL, "1"},
              read \in BOOLEAN :
               r = 1 /\ GetImports(token, status, supplier_id, read)
        \/ \E token \in Tokens, id \in Ids, read \in BOOLEAN :
               FirstIdle(r) /\ GetImport(r, token, id, read)
        \/ \E read \in BOOLEAN : GetImportItems(r, read)

SpecReads == Init /\ [][NextReads]_vars

(***************************************************************************)
(* SpecStatus: status updates by the admin and by two users on the orders  *)
(* of one of them.                                                         *)
(***************************************************************************)
NextStatus ==
    \E r \in Slots :
        \/ CreateOneItem(r, 2)
        \/ \E token \in {1, 2, 3}, id \in Ids, status \in {"shipped", "archived"},
              tracking_number \in {NULL, "TRK123"}, stored \in BOOLEAN :
               FirstIdle(r) /\ PutStatus(r, token, id, status, tracking_number, stored)
        \/ \E read \in BOOLEAN : PutStatusSelect(r, read)

SpecStatus == Init /\ [][NextStatus]_vars

(***************************************************************************)
(* SpecDashboard: the dashboard beside creations and status updates.       *)
(***************************************************************************)
NextDashboard ==
    \E r \in Slots :
        \/ CreateOneItem(r, 2)
        \/ \E id \in Ids : FirstIdle(r) /\ PutStatus(r, 1, id, "shipped", NULL, TRUE)
        \/ PutStatusSelect(r, TRUE)
        \/ \E read \in BOOLEAN : FirstIdle(r) /\ GetDashboard(r, 1, read)
        \/ \E read \in BOOLEAN : GetDashboardMonthly(r, read)
        \/ \E order \in SupplierOrders, read \in BOOLEAN : GetDashboardTop(r, order, read)

SpecDashboard == Init /\ [][NextDashboard]_vars

(***************************************************************************)
(* SpecTop: the dashboard and the creation of orders of the first supplier *)
(* and of the last, one after the other, beside the creation of suppliers. *)
(***************************************************************************)
SupplierBody == [name |-> "Nuevo Proveedor", country |-> "Peru"]

NextTop ==
    \E r \in Slots :
        \/ \E body \in {Body(1, OneItem), Body(MaxSuppliers, TwoItems)} :
               r = 1 /\ PostImports(r, 2, body, Len(imports) + 1, "4FZ1K", TRUE)
        \/ PostInsertItem(r, TRUE)
        \/ PostSelectNew(r, TRUE)
        \/ r = 2 /\ PostSuppliers(r, 2, SupplierBody, TRUE)
        \/ PostSuppliersSelect(r, TRUE)
        \/ r = 1 /\ GetDashboard(r, 1, TRUE)
        \/ GetDashboardMonthly(r, TRUE)
        \/ /\ handlers[r].pc = "dashboard_top"
           /\ \E order \in SupplierOrders : GetDashboardTop(r, order, TRUE)

SpecTop == Init /\ [][NextTop]_vars

(***************************************************************************)
(* SpecTransitions: the admin's updates to every valid label, of an order  *)
(* in any status.                                                          *)
(***************************************************************************)
NextTransitions ==
    \E r \in Slots :
        \/ CreateOneItem(r, 2)
        \/ \E id \in {"1", "3"}, status \in ValidStatuses :
               FirstIdle(r) /\ PutStatus(r, 1, id, status, NULL, TRUE)
        \/ PutStatusSelect(r, TRUE)

SpecTransitions == Init /\ [][NextTransitions]_vars

(***************************************************************************)
(* SpecTracking: the admin's updates with and without a tracking number.   *)
(***************************************************************************)
\* tracking_number of a request body: absent, empty, or a number.
TrackingNumbers == {NULL, "", "TRK123", "TRK456"}

NextTracking ==
    \E r \in Slots :
        \/ CreateOneItem(r, 2)
        \/ \E id \in {"1", "3"}, status \in {"shipped", "delivered"},
              tracking_number \in TrackingNumbers :
               FirstIdle(r) /\ PutStatus(r, 1, id, status, tracking_number, TRUE)
        \/ PutStatusSelect(r, TRUE)

SpecTracking == Init /\ [][NextTracking]_vars

(***************************************************************************)
(* SpecReferences: creations that name a supplier or a product of no row,  *)
(* beside one that names rows, with the failures of their statements.      *)
(***************************************************************************)
\* An item of product 9, of which products has no row.
MissingProduct == << [product_id |-> 9, quantity |-> 1, unit_price |-> 10] >>

\* Supplier 9 is the id of no row of suppliers.
ReferenceBodies == {Body(1, OneItem), Body(9, OneItem), Body(1, MissingProduct)}

NextReferences ==
    \E r \in Slots :
        \/ \E body \in ReferenceBodies, stored \in BOOLEAN :
               FirstIdle(r) /\ PostImports(r, 2, body, Len(imports) + 1, "4FZ1K", stored)
        \/ \E stored \in BOOLEAN : PostInsertItem(r, stored)
        \/ \E read \in BOOLEAN : PostSelectNew(r, read)
        \/ r = 1 /\ GetImports(2, NULL, NULL, TRUE)

SpecReferences == Init /\ [][NextReferences]_vars

(***************************************************************************)
(* SpecRace: the admin's concurrent updates of order 1, once it is stored. *)
(***************************************************************************)
NextRace ==
    \E r \in Slots :
        \/ CreateOneItem(r, 2)
        \/ \E status \in {"shipped", "delivered"}, tracking_number \in {NULL, "TRK123"} :
               /\ Len(imports) >= 1
               /\ FirstIdle(r)
               /\ PutStatus(r, 1, "1", status, tracking_number, TRUE)
        \/ PutStatusSelect(r, TRUE)

SpecRace == Init /\ [][NextRace]_vars

(***************************************************************************)
(* The properties.                                                         *)
(***************************************************************************)
\* The response just sent answers a creation that got as far as its INSERTs.
CreateAnswered(code) == lastResp.op = "create" /\ lastResp.code = code

\* The rows of import_items of order id.
ItemsOf(id) == SelectSeq(import_items, LAMBDA row : row.import_id = id)

\* C1: when an item insertion of a creation fails, the creation fails and
\* leaves neither the header nor any item of the order: no list or detail
\* read finds the order.
C1_FailedCreationLeavesNothing ==
    (CreateAnswered(500) /\ lastResp.req.pc = "insert_items")
        => /\ \A i \in 1..Len(imports) : imports[i].id # lastResp.req.importId
           /\ ItemsOf(lastResp.req.importId) = <<>>
           /\ \A u \in Users :
                 \A i \in DOMAIN ListQuery(imports, u, NULL, NULL) :
                     ListQuery(imports, u, NULL, NULL)[i].id # lastResp.req.importId

\* C2: a list or detail read never returns a partial order: every header a
\* read returns has, when the read returns it, all the items it was created
\* with (at least one).
C2_ReadsReturnWholeOrders ==
    /\ (lastResp.op = "detail" /\ lastResp.code = 200)
          => /\ Len(lastResp.body.items) >= 1
             /\ Len(lastResp.body.items) = Len(createdWith[lastResp.body.id])
    /\ (lastResp.op = "list" /\ lastResp.code = 200)
          => \A i \in DOMAIN lastResp.body :
                /\ Len(ItemsOf(lastResp.body[i].id)) >= 1
                /\ Len(ItemsOf(lastResp.body[i].id)) = Len(createdWith[lastResp.body[i].id])

\* C3: no two persisted orders have the same importCode.
C3_ImportCodesUnique ==
    \A i, j \in 1..Len(imports) :
        i # j => imports[i].import_code # imports[j].import_code

\* C3: a creation has just been refused because its code is the code of an
\* order whose creation is still in flight.
C3_Witness ==
    /\ CreateAnswered(500)
    /\ lastResp.req.collided
    /\ \E r \in Slots :
          /\ handlers[r].pc \in {"insert_items", "select_new"}
          /\ handlers[r].importCode = lastResp.req.importCode

\* C4: a creation whose generated code is already taken regenerates the code
\* and retries: the request still ends with the order created, the conflict
\* is not what the caller gets.
C4_CollisionIsRetried ==
    (lastResp.op = "create" /\ lastResp.code \in {201, 500} /\ lastResp.req.collided)
        => lastResp.code = 201

\* C5: a creation with an empty item list is answered with the validation
\* error and persists nothing: no header is ever inserted for such a request,
\* and the step that answers it leaves imports and import_items as they were.
C5_EmptyItemListRejected ==
    /\ [](\A i \in 1..Len(createdWith) : createdWith[i] # <<>>)
    /\ [][ (lastResp'.op = "create" /\ lastResp'.code # 403 /\ lastResp'.req.items = <<>>)
              => /\ lastResp'.code = 400
                 /\ lastResp'.body = <<"items">>
                 /\ imports' = imports
                 /\ import_items' = import_items ]_vars

\* C5: the empty item list has just been refused while an order is stored.
C5_Witness ==
    /\ CreateAnswered(400)
    /\ lastResp.req.items = <<>>
    /\ Len(imports) >= 1
    /\ Len(import_items) >= 1

\* C6: a status update whose status is not one of the seven labels fails: it
\* never reaches the UPDATE, and the step that answers it leaves every row of
\* imports and import_items as it was.
C6_UnknownStatusRejected ==
    /\ [](\A r \in Slots :
             handlers[r].pc = "status_select" => handlers[r].req.status \in ValidStatuses)
    /\ [](\A i \in 1..Len(imports) : imports[i].status \in ValidStatuses)
    /\ [][ (/\ lastResp'.op = "status"
            /\ lastResp'.user # NoUser
            /\ lastResp'.req.status \notin ValidStatuses)
              => /\ lastResp'.code \in {400, 403}
                 /\ imports' = imports
                 /\ import_items' = import_items ]_vars

\* C6: the admin's update of a shipped order to an unknown label has just
\* been refused.
C6_Witness ==
    /\ lastResp.op = "status" /\ lastResp.code = 400
    /\ lastResp.req.status = "archived"
    /\ \E i \in 1..Len(imports) :
          /\ imports[i].id = ToInteger(lastResp.req.id)
          /\ imports[i].status = "shipped"

\* C7: a status update by a caller who is not admin is answered 403
\* 'Permisos insuficientes' whoever owns the order, by a step that reads and
\* writes no order and starts no handler; only an admin's update is in flight.
C7_NonAdminUpdateRejected ==
    /\ [](\A r \in Slots :
             handlers[r].pc = "status_select" => handlers[r].user.role = "admin")
    /\ [][ (/\ lastResp'.op = "status"
            /\ lastResp'.user # NoUser
            /\ lastResp'.user.role # "admin")
              => /\ lastResp'.code = 403
                 /\ lastResp'.body = "Permisos insuficientes"
                 /\ imports' = imports
                 /\ import_items' = import_items
                 /\ handlers' = handlers ]_vars

\* C7: the owner of an order, not an admin, has just been refused a status
\* update of that order.
C7_Witness ==
    /\ lastResp.op = "status" /\ lastResp.code = 403
    /\ lastResp.user.role = "user"
    /\ lastResp.req.status = "shipped"
    /\ \E i \in 1..Len(imports) :
          /\ imports[i].id = ToInteger(lastResp.req.id)
          /\ imports[i].user_id = lastResp.user.id

\* The values of the list's query parameters.
C8_StatusFilters == ValidStatuses \cup {NULL}
C8_SupplierFilters == {NULL, "1", "2", "3"}

\* C8: for a caller who is not admin, the list, under every combination of
\* filters, and the detail return only rows whose owner is the caller, and a
\* detail answer holds the header and the items of an order of the caller.
C8_ReadsReturnOwnOrders ==
    /\ \A u \in Users : u.role # "admin" =>
          /\ \A status \in C8_StatusFilters, supplier \in C8_SupplierFilters :
                \A i \in DOMAIN ListQuery(imports, u, status, supplier) :
                    ListQuery(imports, u, status, supplier)[i].user_id = u.id
          /\ \A id \in Ids :
                \A i \in DOMAIN DetailQuery(imports, u, id) :
                    DetailQuery(imports, u, id)[i].user_id = u.id
    /\ (lastResp.op = "list" /\ lastResp.code = 200 /\ lastResp.user.role # "admin")
          => \A i \in DOMAIN lastResp.body : lastResp.body[i].user_id = lastResp.user.id
    /\ (lastResp.op = "detail" /\ lastResp.code = 200 /\ lastResp.user.role # "admin")
          => /\ lastResp.body.user_id = lastResp.user.id
             /\ \A i \in DOMAIN lastResp.body.items :
                   imports[lastResp.body.items[i].import_id].user_id = lastResp.user.id

\* C8: a user has just listed the orders and got one, while another user's
\* order is stored too.
C8_Witness ==
    /\ lastResp.op = "list" /\ lastResp.code = 200
    /\ lastResp.user.role = "user"
    /\ Len(lastResp.body) = 1
    /\ \E i \in 1..Len(imports) :
          /\ imports[i].user_id # lastResp.user.id
          /\ ItemsOf(imports[i].id) # <<>>

\* The sum of quantity * unit_price in hundredths, in integers.
RECURSIVE C9_ExactCents(_)
C9_ExactCents(items) ==
    IF items = <<>> THEN 0
    ELSE Head(items).quantity * Head(items).unit_price + C9_ExactCents(Tail(items))

\* The sum of the total_price of rows, as JS or SQLite adds them.
RECURSIVE C9_SumPrices(_)
C9_SumPrices(rows) ==
    IF rows = <<>> THEN NumZero
    ELSE NumAdd(C9_SumPrices(SubSeq(rows, 1, Len(rows) - 1)), rows[Len(rows)].total_price)

\* C9: the total_amount stored for and returned with a created order is the
\* decimal sum of quantity * unit_price, and is the sum of the stored
\* total_price of its items.
C9_TotalAmountExact ==
    CreateAnswered(201)
        => /\ lastResp.body.total_amount = NumFromCents(C9_ExactCents(lastResp.req.items))
           /\ imports[lastResp.req.importId].total_amount = lastResp.body.total_amount
           /\ lastResp.body.total_amount = C9_SumPrices(ItemsOf(lastResp.req.importId))

RECURSIVE C10_SumCounts(_)
C10_SumCounts(groups) ==
    IF groups = <<>> THEN 0 ELSE Head(groups).count + C10_SumCounts(Tail(groups))

\* The breakdown has one entry per status among rows, and its counts sum to
\* the number of rows.
C10_BreakdownOf(groups, rows) ==
    /\ \A i, j \in DOMAIN groups : i # j => groups[i].status # groups[j].status
    /\ {groups[i].status : i \in DOMAIN groups} = {rows[i].status : i \in DOMAIN rows}
    /\ C10_SumCounts(groups) = Len(rows)

\* C10: in every state the status breakdown of the dashboard has one entry per
\* status present among the orders and its counts sum to the number of orders;
\* the same holds of the breakdown a handler has read, for the orders that
\* were stored when it read it.
C10_StatusBreakdownCounts ==
    /\ C10_BreakdownOf(StatusStats(imports), imports)
    /\ \A r \in Slots :
          handlers[r].pc \in {"dashboard_monthly", "dashboard_top"}
              => \E n \in 0..Len(imports) :
                    /\ C10_SumCounts(handlers[r].statusStats) = n
                    /\ \A i, j \in DOMAIN handlers[r].statusStats :
                          i # j => handlers[r].statusStats[i].status
                                      # handlers[r].statusStats[j].status

\* C10: the dashboard has just answered with the breakdown of two orders in
\* two statuses.
C10_Witness ==
    /\ lastResp.op = "dashboard" /\ lastResp.code = 200
    /\ Len(lastResp.body.statusBreakdown) = 2
    /\ lastResp.body.statusBreakdown = StatusStats(imports)
    /\ Len(imports) = 2

\* The total value of an entry as the ranking reads it: that of a supplier
\* with no order is zero.
C11_Value(entry) ==
    IF entry.total_value = NullNumber THEN NumZero ELSE entry.total_value

\* top is a top-suppliers aggregate of the tables: at most 5 entries, as many
\* as there are suppliers when these are fewer, each the entry of a supplier,
\* in descending order of total value, and with every supplier whose total
\* value is larger than the last entry's.
C11_TopOf(top) ==
    LET entries == [s \in suppliers |-> SupplierGroup(imports, s)]
        last    == C11_Value(top[Len(top)])
    IN  /\ Len(top) <= 5
        /\ Len(top) = IF Cardinality(suppliers) < 5 THEN Cardinality(suppliers) ELSE 5
        /\ \A i \in DOMAIN top : \E s \in suppliers : top[i] = entries[s]
        /\ \A i \in 1..(Len(top) - 1) : ~NumLess(C11_Value(top[i]), C11_Value(top[i + 1]))
        /\ Cardinality({s \in suppliers : NumLess(last, C11_Value(entries[s]))})
              = Cardinality({i \in DOMAIN top : NumLess(last, C11_Value(top[i]))})

\* C11: the top-suppliers aggregate a dashboard answers with has at most 5
\* entries in descending order of total value, has the suppliers with no
\* order among its candidates, and leaves out no supplier whose total value
\* is larger than that of a supplier it includes.
C11_TopSuppliersRanked ==
    (lastResp.op = "dashboard" /\ lastResp.code = 200)
        => C11_TopOf(lastResp.body.topSuppliers)

\* C11: of six suppliers the dashboard has just ranked five: first the one
\* created last, for its order, then the first, then suppliers with no order.
C11_Witness ==
    /\ lastResp.op = "dashboard" /\ lastResp.code = 200
    /\ Cardinality(suppliers) = 6
    /\ Len(lastResp.body.topSuppliers) = 5
    /\ lastResp.body.topSuppliers[1].name = "Nuevo Proveedor"
    /\ lastResp.body.topSuppliers[1].imports_count = 1
    /\ lastResp.body.topSuppliers[2].name = "Tech Supplies China"
    /\ lastResp.body.topSuppliers[3].imports_count = 0

\* The order a status request names is stored.
C12_Exists(req) == ToInteger(req.id) \in 1..Len(imports)

\* C12: the admin's update of a stored order to any of the seven labels is
\* not rejected, whatever the order's status: the UPDATE sets the order's
\* status to the label, and the request is answered 200.
C12_AnyTransitionAccepted ==
    [][ /\ \A r \in Slots :
              (/\ handlers[r].pc = "idle"
               /\ handlers'[r].pc = "status_select"
               /\ C12_Exists(handlers'[r].req))
                 => /\ handlers'[r].req.status \in ValidStatuses
                    /\ imports'[ToInteger(handlers'[r].req.id)].status
                          = handlers'[r].req.status
        /\ (/\ lastResp'.op = "status"
            /\ lastResp'.user.role = "admin"
            /\ lastResp'.req.status \in ValidStatuses
            /\ C12_Exists(lastResp'.req))
              => lastResp'.code = 200 ]_vars

\* C12: an update of order 1 to delivered and a later one to pending have both
\* been carried out, neither answered yet, and the order is pending.
C12_Witness ==
    /\ handlers[1].pc = "status_select" /\ handlers[2].pc = "status_select"
    /\ handlers[1].req.id = "1" /\ handlers[2].req.id = "1"
    /\ handlers[1].req.status = "delivered"
    /\ handlers[2].req.status = "pending"
    /\ Len(imports) >= 1
    /\ imports[1].status = "pending"

\* The caller of a detail request owns no order of the id it names: the
\* order is another user's, or there is none.
C13_NotOwn(user, id) ==
    \A i \in 1..Len(imports) :
        imports[i].id = ToInteger(id) => imports[i].user_id # user.id

\* C13: a detail request of a caller who is not admin, for an order of
\* another user or for an id of no order, gets the one not-found response
\* (or, when the query fails, the one internal error), and no handler goes on
\* to read the items of an order that is not its caller's.
C13_NotFoundHidesExistence ==
    /\ (/\ lastResp.op = "detail"
        /\ lastResp.user.role = "user"
        /\ C13_NotOwn(lastResp.user, lastResp.req.id))
          => \/ lastResp.code = 500
             \/ lastResp.code = 404 /\ lastResp.body = "Importacion no encontrada"
    /\ \A r \in Slots :
          (handlers[r].pc = "detail_items" /\ handlers[r].user.role = "user")
              => ~C13_NotOwn(handlers[r].user, handlers[r].id)

\* C13: a user has just been answered not found for the stored order of
\* another user.
C13_Witness ==
    /\ lastResp.op = "detail" /\ lastResp.code = 404
    /\ lastResp.user.role = "user"
    /\ \E i \in 1..Len(imports) :
          /\ imports[i].id = ToInteger(lastResp.req.id)
          /\ imports[i].user_id # lastResp.user.id

\* The columns of imports a status update is not to touch.
C14_FrameColumns ==
    {"id", "import_code", "user_id", "supplier_id", "total_amount", "import_date",
     "estimated_arrival", "notes"}

\* C14: the step of a status update that carries out the UPDATE changes, of
\* the order it names, only status and tracking_number, and changes no other
\* order and no item; the step that answers the update changes no row.
C14_UpdateTouchesOnlyStatus ==
    [][ /\ \A r \in Slots :
              (handlers[r].pc = "idle" /\ handlers'[r].pc = "status_select")
                 => /\ Len(imports') = Len(imports)
                    /\ import_items' = import_items
                    /\ \A i \in 1..Len(imports) :
                          /\ \A c \in C14_FrameColumns : imports'[i][c] = imports[i][c]
                          /\ imports[i].id # ToInteger(handlers'[r].req.id)
                                => imports'[i] = imports[i]
        /\ lastResp'.op = "status"
              => imports' = imports /\ import_items' = import_items ]_vars

\* C14: order 1 of two has just been answered as shipped with TRK123; order 2
\* is pending with no tracking number, and the items of both are stored.
C14_Witness ==
    /\ lastResp.op = "status" /\ lastResp.code = 200
    /\ lastResp.req.id = "1"
    /\ Len(imports) = 2
    /\ imports[1].status = "shipped" /\ imports[1].tracking_number = "TRK123"
    /\ imports[2].status = "pending" /\ imports[2].tracking_number = NULL
    /\ ItemsOf(1) # <<>> /\ ItemsOf(2) # <<>>

\* C15: the UPDATE of a status update that passes no tracking number (none,
\* or the empty string) leaves the order with no tracking number, whatever it
\* had; the UPDATE of one that passes a tracking number stores that number.
C15_TrackingSetOrCleared ==
    [][ \A r \in Slots :
           (/\ handlers[r].pc = "idle"
            /\ handlers'[r].pc = "status_select"
            /\ ToInteger(handlers'[r].req.id) \in 1..Len(imports))
              => LET passed == handlers'[r].req.tracking_number
                     stored == imports'[ToInteger(handlers'[r].req.id)].tracking_number
                 IN  /\ passed \in {NULL, ""} => stored = NULL
                     /\ passed \in {"TRK123", "TRK456"} => stored = passed ]_vars

\* C15: an update of order 1 with TRK123 and a later one with no tracking
\* number have both been carried out, neither answered yet, and the order
\* has no tracking number.
C15_Witness ==
    /\ handlers[1].pc = "status_select" /\ handlers[2].pc = "status_select"
    /\ handlers[1].req.id = "1" /\ handlers[2].req.id = "1"
    /\ handlers[1].req.tracking_number = "TRK123"
    /\ handlers[2].req.tracking_number = NULL
    /\ Len(imports) >= 1
    /\ imports[1].tracking_number = NULL

\* The ids of the rows of suppliers and of products.
C16_SupplierIds == {s.id : s \in suppliers}
C16_ProductIds == {p.id : p \in Products}

\* C16: every stored order names a stored supplier and every stored item a
\* stored product (no row of either table is ever deleted, so one that was
\* there at the creation still is), and no order is stored for a request of
\* which an item names no product.
C16_ReferencesExist ==
    /\ \A i \in 1..Len(imports) : imports[i].supplier_id \in C16_SupplierIds
    /\ \A i \in 1..Len(import_items) : import_items[i].product_id \in C16_ProductIds
    /\ \A i \in 1..Len(createdWith) :
          \A k \in 1..Len(createdWith[i]) : createdWith[i][k].product_id \in C16_ProductIds

\* C17: the order a status update is answered 200 with has the status the
\* request asked for, and its tracking number (none when it passed none).
C17_ResponseCarriesOwnUpdate ==
    (lastResp.op = "status" /\ lastResp.code = 200)
        => /\ lastResp.body.status = lastResp.req.status
           /\ lastResp.body.tracking_number =
                 IF lastResp.req.tracking_number \in {NULL, ""}
                 THEN NULL ELSE lastResp.req.tracking_number

====
